---- MODULE Spec2Model ----
(***************************************************************************)
(* Model of src/src/bin/tester.rs: the ambiguity classifier                *)
(* (ambiguity_check) over a shared packed parse forest, and the harness    *)
(* (main) that drives it over one file or a directory of files.            *)
(*                                                                         *)
(* The parser (gll / rust_grammar), the tokenizer (proc_macro2) and the    *)
(* file system are external crates.  A file is modelled by what they       *)
(* answer for it: whether its text tokenizes, what the parser returns, and *)
(* the forest behind the returned handle.  Every fs/io call that the code  *)
(* unwrap()s is taken to succeed: a failure there panics and ends the      *)
(* process, which is outside the runs modelled here.                       *)
(***************************************************************************)
EXTENDS Integers, Sequences, FiniteSets, TLC

(* ------------------------------ bounds -------------------------------- *)

\* Number of distinct nodes of a forest.
NumNodes == 3

\* Largest number of alternatives of a Choice / pairings of a Split.
MaxAlts == 2

Nodes == 1..NumNodes

\* Option::None for a node or a path.
None == 0

(* ------------------------- the forest (sppf) --------------------------- *)

\* The node sets an ambiguous node's alternatives are drawn from: the
\* MaxAlts lowest and the MaxAlts highest nodes.  (Which children the
\* alternatives of an ambiguous node have is never read by the traversal:
\* one_choice and one_split answer Err without them.)
AmbWindows == {1..MaxAlts, (NumNodes - MaxAlts + 1)..NumNodes}

\* What the forest stores for one node: its shape and its alternatives, each
\* alternative the tuple of children of one derivation (one child for Alias,
\* Opt and Choice, <<left, right>> for Split).  An absent Opt child and an
\* Opaque node have no alternative; a Choice or Split has one alternative
\* (any child, any pair of children) or MaxAlts of them.
NodeDescs ==
    {[shape |-> "Opaque", alts |-> {}]}
    \cup {[shape |-> "Alias", alts |-> {<<c>>}] : c \in Nodes}
    \cup {[shape |-> "Opt", alts |-> {}]}
    \cup {[shape |-> "Opt", alts |-> {<<c>>}] : c \in Nodes}
    \cup {[shape |-> "Choice", alts |-> {<<c>>}] : c \in Nodes}
    \cup {[shape |-> "Choice", alts |-> {<<c>> : c \in W}] : W \in AmbWindows}
    \cup {[shape |-> "Split", alts |-> {p}] : p \in Nodes \X Nodes}
    \cup {[shape |-> "Split", alts |-> {<<c, NumNodes + 1 - c>> : c \in W}] :
             W \in AmbWindows}

Forests == [Nodes -> NodeDescs]

\* source.kind.shape()
shape(sppf, source) == sppf[source].shape

TheAlt(sppf, source) == CHOOSE a \in sppf[source].alts : TRUE

\* source.unpack_alias()
unpack_alias(sppf, source) == TheAlt(sppf, source)[1]

\* source.unpack_opt()
unpack_opt(sppf, source) ==
    IF sppf[source].alts = {} THEN None ELSE TheAlt(sppf, source)[1]

\* sppf.one_choice(source): Err(MoreThanOne) when the node has more than one
\* alternative, else Ok(the child).
one_choice(sppf, source) ==
    IF Cardinality(sppf[source].alts) > 1
    THEN [ok |-> FALSE, val |-> <<>>]
    ELSE [ok |-> TRUE, val |-> <<TheAlt(sppf, source)[1]>>]

\* sppf.one_split(source): Err(MoreThanOne) when the node has more than one
\* pairing, else Ok((left, right)).
one_split(sppf, source) ==
    IF Cardinality(sppf[source].alts) > 1
    THEN [ok |-> FALSE, val |-> <<>>]
    ELSE [ok |-> TRUE, val |-> TheAlt(sppf, source)]

(* --------------------------- ambiguity_check --------------------------- *)

\* Lines 82-84: the queue holds the root, and seen is collected from it.
CheckStart(node) == [queue |-> <<node>>, seen |-> {node}, result |-> "running"]

\* Faulty variant: the front is read and left in the queue.
pop_front_wrong(queue) == queue

\* queue.pop_front(): the queue left behind.
pop_front(queue) == Tail(queue)

\* Faulty variant: every child counts as new.
insert_is_new_wrong(seen, child) == TRUE

\* seen.insert(child): true when child was not in the set yet.
insert_is_new(seen, child) == child \notin seen

\* The closure add_children: each child not seen yet is inserted into seen
\* and pushed to the back of the queue, in the order of the slice.
RECURSIVE add_children(_, _)
add_children(st, children) ==
    IF children = <<>>
    THEN st
    ELSE LET child == Head(children)
             next == IF insert_is_new(st.seen, child)
                     THEN [st EXCEPT !.seen = @ \cup {child},
                                     !.queue = Append(@, child)]
                     ELSE st
         IN  add_children(next, Tail(children))

\* Faulty variant: an Err is dropped and the loop goes on.
try_wrong(st, r) == add_children(st, <<>>)

\* The `?` of lines 102 and 104: an Err returns from ambiguity_check at once.
try(st, r) ==
    IF r.ok THEN add_children(st, r.val) ELSE [st EXCEPT !.result = "Err"]

\* One iteration of `while let Some(source) = queue.pop_front()`, the queue
\* non-empty.
LoopBody(sppf, st) ==
    LET source == Head(st.queue)
        popped == [st EXCEPT !.queue = pop_front(st.queue)]
    IN  CASE shape(sppf, source) = "Opaque" -> popped
          [] shape(sppf, source) = "Alias" ->
                add_children(popped, <<unpack_alias(sppf, source)>>)
          [] shape(sppf, source) = "Opt" ->
                IF unpack_opt(sppf, source) # None
                THEN add_children(popped, <<unpack_opt(sppf, source)>>)
                ELSE popped
          [] shape(sppf, source) = "Choice" ->
                try(popped, one_choice(sppf, source))
          [] shape(sppf, source) = "Split" ->
                try(popped, one_split(sppf, source))

\* ambiguity_check run to its return value: "Ok" or "Err".
RECURSIVE RunLoop(_, _)
RunLoop(sppf, st) ==
    IF st.result # "running" THEN st.result
    ELSE IF st.queue = <<>> THEN "Ok"
    ELSE RunLoop(sppf, LoopBody(sppf, st))

ambiguity_check(handle) == RunLoop(handle.sppf, CheckStart(handle.node))

(* ------------------------------ the files ----------------------------- *)

\* Largest number of files of a directory whose files are of any kinds.
MaxFiles == 3

\* Largest number of files of a directory whose kinds repeat in a fixed cycle.
MaxBatch == 161

\* `total_count % 80`: the width the compact output is limited to.
Columns == 80

Opaque == [shape |-> "Opaque", alts |-> {}]

\* 1 = Split(2, 3), 2 = Alias(3), 3 = Opaque: one derivation, node 3 shared.
UnambiguousForest ==
    [n \in Nodes |->
        CASE n = 1 -> [shape |-> "Split", alts |-> {<<2, 3>>}]
          [] n = 2 -> [shape |-> "Alias", alts |-> {<<3>>}]
          [] OTHER -> Opaque]

\* 1 = Choice with the alternatives 2 and 3.
AmbiguousRootForest ==
    [n \in Nodes |->
        CASE n = 1 -> [shape |-> "Choice", alts |-> {<<2>>, <<3>>}]
          [] OTHER -> Opaque]

\* 1 = Opt(2), 2 = Split(3, 3), 3 = Split with the pairings (1, 2) and (2, 1).
AmbiguousDeepForest ==
    [n \in Nodes |->
        CASE n = 1 -> [shape |-> "Opt", alts |-> {<<2>>}]
          [] n = 2 -> [shape |-> "Split", alts |-> {<<3, 3>>}]
          [] n = 3 -> [shape |-> "Split", alts |-> {<<1, 2>>, <<2, 1>>}]
          [] OTHER -> Opaque]

\* A file, by what the external crates answer for it: whether its text
\* tokenizes, and what the parser returns when it is given the tokens
\* ("Ok", "TooShort" or "NoParse", the first two with a handle).
File(tokenizes, parsed, forest) ==
    [tokenizes |-> tokenizes, parsed |-> parsed, sppf |-> forest, node |-> 1]

FileKinds ==
    << File(TRUE, "Ok", UnambiguousForest),
       File(TRUE, "Ok", AmbiguousRootForest),
       File(TRUE, "TooShort", AmbiguousRootForest),
       File(TRUE, "NoParse", UnambiguousForest),
       File(FALSE, "Ok", UnambiguousForest),
       File(TRUE, "Ok", AmbiguousDeepForest) >>

NumKinds == Len(FileKinds)

\* The directories: every sequence of at most MaxFiles files, and the
\* sequences of at most MaxBatch files that go through FileKinds in a cycle.
Corpora ==
    UNION {[1..n -> 1..NumKinds] : n \in 0..MaxFiles}
    \cup {[i \in 1..n |-> ((i - 1) % NumKinds) + 1] : n \in 0..MaxBatch}

(* --------------------------- parse_file_with --------------------------- *)

\* Faulty variant: the tokenizer's Err is not looked at.
tokenize_always(file) == TRUE

\* src.parse::<proc_macro2::TokenStream>() is Ok
tokenize(file) == file.tokenizes

\* parse::ModuleContents::parse_with(tts, ..): the result given to f.
parse_with(file) ==
    [kind |-> file.parsed, handle |-> [sppf |-> file.sppf, node |-> file.node]]

\* The result parse_file_with passes to f, and whether it called the parser.
parse_file_with(file) ==
    IF tokenize(file)
    THEN [result |-> parse_with(file), parser_called |-> TRUE]
    ELSE [result |-> [kind |-> "NoParse", handle |-> None], parser_called |-> FALSE]

(* ----------------------------- main: Dir ------------------------------- *)

\* Faulty variant: a full parse is counted unambiguous without the check.
Classify_unchecked(result) ==
    CASE result.kind = "Ok" -> [status |-> "~", count |-> "unambiguous", checked |-> FALSE]
      [] result.kind = "TooShort" -> [status |-> ".", count |-> "too_short", checked |-> FALSE]
      [] result.kind = "NoParse" -> [status |-> "X", count |-> "no_parse", checked |-> FALSE]

\* Lines 156-166: the status character, the counter to increment, and whether
\* ambiguity_check was called.
Classify(result) ==
    CASE result.kind = "Ok" ->
            IF ambiguity_check(result.handle) = "Ok"
            THEN [status |-> "~", count |-> "unambiguous", checked |-> TRUE]
            ELSE [status |-> "!", count |-> "ambiguous", checked |-> TRUE]
      [] result.kind = "TooShort" ->
            [status |-> ".", count |-> "too_short", checked |-> FALSE]
      [] result.kind = "NoParse" ->
            [status |-> "X", count |-> "no_parse", checked |-> FALSE]

\* Faulty variant: the total is left alone.
Increment_no_total(counts, count) == [counts EXCEPT ![count] = @ + 1]

\* Lines 167-168: *count += 1; total_count += 1.
Increment(counts, count) == [counts EXCEPT ![count] = @ + 1, !.total = @ + 1]

\* stdout is the sequence of its lines, the last one the line being written.
println(out) == Append(out, <<>>)
print(out, status) == [out EXCEPT ![Len(out)] = Append(@, status)]

\* Lines 174-179: the compact output of one file, total_count already
\* incremented.
CompactOutput(out, total_count, status) ==
    print(IF total_count % Columns = 0 THEN println(out) ELSE out, status)

\* Faulty variant: the first file that is not unambiguous ends the run.
AfterFile_fail_fast(status) == IF status = "~" THEN "run" ELSE "done"

\* Lines 181-182: the closure returns () whatever the status was, and the
\* for loop goes on ("run") to the next file.
AfterFile(status) == "run"

(* ------------------------------- state --------------------------------- *)

VARIABLES
    sppf,       \* handle.parser.sppf of the ambiguity_check call being traced
    root,       \* handle.node
    queue,      \* ambiguity_check's queue
    seen,       \* ambiguity_check's seen
    result,     \* "running", or the value returned: "Ok" / "Err"
    enqueued,   \* history: every node pushed to the queue, in order
    dequeued,   \* history: every node popped from the queue, in order
    cmd,        \* Command: "file" or "dir" ("none": no command is run)
    pc,         \* "run", then "done" when main returns
    verbose,    \* Dir { verbose }
    graphviz_forest, \* File { graphviz_forest }: None or a path
    files,      \* the .rs files in WalkDir's order, or the one file
    idx,        \* how many of them the for loop has taken
    counts,     \* the five counters
    stdout,     \* the lines of compact output
    stats,      \* the statistics blocks printed, each the five numbers
    stderr,     \* the results reported, in order
    dot,        \* the forests dumped to graphviz_forest
    log         \* history: what was done for each file, in order

cvars == <<sppf, root, queue, seen, result, enqueued, dequeued>>

hvars == <<cmd, pc, verbose, graphviz_forest, files, idx, counts, stdout,
           stats, stderr, dot, log>>

vars == <<cvars, hvars>>

(* ----------------------- ambiguity_check, traced ----------------------- *)

\* The histories keep at most this many entries (a correct run needs NumNodes).
TraceCap == NumNodes + 2

Log(trace, items) ==
    LET all == trace \o items
    IN  IF Len(all) <= TraceCap THEN all ELSE SubSeq(all, 1, TraceCap)

ZeroCounts ==
    [total |-> 0, unambiguous |-> 0, ambiguous |-> 0, too_short |-> 0, no_parse |-> 0]

NoHarness ==
    /\ cmd = "none"
    /\ pc = "done"
    /\ verbose = FALSE
    /\ graphviz_forest = None
    /\ files = <<>>
    /\ idx = 0
    /\ counts = ZeroCounts
    /\ stdout = << <<>> >>
    /\ stats = <<>>
    /\ stderr = <<>>
    /\ dot = <<>>
    /\ log = <<>>

\* A call of ambiguity_check on any forest; the handle's node is node 1.
InitCheck ==
    /\ sppf \in Forests
    /\ root = 1
    /\ queue = CheckStart(root).queue
    /\ seen = CheckStart(root).seen
    /\ result = CheckStart(root).result
    /\ enqueued = <<root>>
    /\ dequeued = <<>>
    /\ NoHarness

\* One iteration of the while loop of ambiguity_check.
CheckIter ==
    /\ result = "running"
    /\ queue # <<>>
    /\ LET st == [queue |-> queue, seen |-> seen, result |-> result]
           nx == LoopBody(sppf, st)
       IN  /\ queue' = nx.queue
           /\ seen' = nx.seen
           /\ result' = nx.result
           /\ dequeued' = Log(dequeued, <<Head(queue)>>)
           /\ enqueued' = Log(enqueued,
                              SubSeq(nx.queue, Len(pop_front(queue)) + 1,
                                     Len(nx.queue)))
    /\ UNCHANGED <<sppf, root>>
    /\ UNCHANGED hvars

\* The loop ends on the empty queue and the function returns Ok(()).
CheckReturnOk ==
    /\ result = "running"
    /\ queue = <<>>
    /\ result' = "Ok"
    /\ UNCHANGED <<sppf, root, queue, seen, enqueued, dequeued>>
    /\ UNCHANGED hvars

NextCheck == CheckIter \/ CheckReturnOk

SpecCheck == InitCheck /\ [][NextCheck]_vars

(* ------------------------------ main, run ------------------------------ *)

NoCheck ==
    /\ sppf = [n \in Nodes |-> Opaque]
    /\ root = 1
    /\ queue = <<>>
    /\ seen = {}
    /\ result = "Ok"
    /\ enqueued = <<>>
    /\ dequeued = <<>>

InitHarness ==
    /\ pc = "run"
    /\ idx = 0
    /\ counts = ZeroCounts
    /\ stdout = << <<>> >>
    /\ stats = <<>>
    /\ stderr = <<>>
    /\ dot = <<>>
    /\ log = <<>>

InitDir ==
    /\ cmd = "dir"
    /\ verbose \in BOOLEAN
    /\ graphviz_forest = None
    /\ \E corpus \in Corpora : files = [i \in DOMAIN corpus |-> FileKinds[corpus[i]]]
    /\ InitHarness

InitFile ==
    /\ cmd = "file"
    /\ verbose = FALSE
    /\ graphviz_forest \in {None, 1}
    /\ \E k \in 1..NumKinds : files = <<FileKinds[k]>>
    /\ InitHarness

Init == NoCheck /\ (InitDir \/ InitFile)

\* Command::Dir, one iteration of `for file in files` (lines 152-182).
ProcessFile ==
    /\ cmd = "dir"
    /\ pc = "run"
    /\ idx < Len(files)
    /\ LET file == files[idx + 1]
           parsed == parse_file_with(file)
           class == Classify(parsed.result)
           after == Increment(counts, class.count)
       IN  /\ counts' = after
           /\ IF verbose
              THEN /\ stderr' = Append(stderr, [path |-> idx + 1,
                                                result |-> parsed.result.kind])
                   /\ stdout' = stdout
              ELSE /\ stdout' = CompactOutput(stdout, after.total, class.status)
                   /\ stderr' = stderr
           /\ log' = Append(log, [file |-> idx + 1,
                                  status |-> class.status,
                                  count |-> class.count,
                                  parser_called |-> parsed.parser_called,
                                  checked |-> class.checked])
           /\ pc' = AfterFile(class.status)
    /\ idx' = idx + 1
    /\ UNCHANGED <<cmd, verbose, graphviz_forest, files, stats, dot>>
    /\ UNCHANGED cvars

\* Command::Dir, after the loop: the statistics (lines 185-190).
PrintStats ==
    /\ cmd = "dir"
    /\ pc = "run"
    /\ idx = Len(files)
    /\ stdout' = println(stdout)
    /\ stats' = Append(stats, <<counts.total, counts.unambiguous, counts.ambiguous,
                                counts.too_short, counts.no_parse>>)
    /\ pc' = "done"
    /\ UNCHANGED <<cmd, verbose, graphviz_forest, files, idx, counts, stderr, dot, log>>
    /\ UNCHANGED cvars

\* Faulty variant: a TooShort result is not dumped.
DumpsForest_full_only(kind, out_path) == kind = "Ok" /\ out_path # None

\* Lines 121-132: whether the forest is dumped.
DumpsForest(kind, out_path) == kind \in {"Ok", "TooShort"} /\ out_path # None

\* Command::File (lines 115-135).
RunFile ==
    /\ cmd = "file"
    /\ pc = "run"
    /\ LET parsed == parse_file_with(files[1])
           dumps == DumpsForest(parsed.result.kind, graphviz_forest)
       IN  /\ dot' = IF dumps
                     THEN Append(dot, [path |-> graphviz_forest,
                                       sppf |-> parsed.result.handle.sppf])
                     ELSE dot
           /\ stderr' = Append(stderr, [path |-> None, result |-> parsed.result.kind])
           /\ log' = (IF dumps THEN <<"dump_graphviz">> ELSE <<>>)
                     \o <<"report_file_result">>
    /\ idx' = 1
    /\ pc' = "done"
    /\ UNCHANGED <<cmd, verbose, graphviz_forest, files, counts, stdout, stats>>
    /\ UNCHANGED cvars

Next == ProcessFile \/ PrintStats \/ RunFile

Spec == Init /\ [][Next]_vars

(* ------------------ the forest, apart from the traversal --------------- *)

Range(seq) == {seq[i] : i \in DOMAIN seq}

NoDuplicates(seq) == \A i, j \in DOMAIN seq : i # j => seq[i] # seq[j]

\* The shape-defined children of a node: the Alias child, the present Opt
\* child, every Choice alternative, both sides of every Split pairing.
Children(f, n) == UNION {Range(a) : a \in f[n].alts}

\* A Choice with more than one alternative, or a Split with more than one
\* pairing.
LocallyAmbiguous(f, n) ==
    /\ f[n].shape \in {"Choice", "Split"}
    /\ Cardinality(f[n].alts) > 1

RECURSIVE ReachableFrom(_, _)
ReachableFrom(f, S) ==
    LET T == S \cup UNION {Children(f, n) : n \in S}
    IN  IF T = S THEN S ELSE ReachableFrom(f, T)

\* The node r and every node transitively reachable from it.
Reachable(f, r) == ReachableFrom(f, {r})

GloballyAmbiguous(f, r) == \E n \in Reachable(f, r) : LocallyAmbiguous(f, n)

\* A node that is reachable from one of its own children.
OnCycle(f, n) == n \in ReachableFrom(f, Children(f, n)) /\ Children(f, n) # {}

\* The breadth-first depth of every node the traversal can reach: found maps
\* the nodes of depth < k, frontier holds the nodes of depth k, and the next
\* frontier is the children of the frontier's unambiguous nodes.
RECURSIVE DepthsFrom(_, _, _, _)
DepthsFrom(f, found, frontier, k) ==
    IF frontier = {} THEN found
    ELSE LET here == [n \in DOMAIN found \cup frontier |->
                         IF n \in frontier THEN k ELSE found[n]]
             next == UNION {Children(f, n) :
                               n \in {m \in frontier : ~LocallyAmbiguous(f, m)}}
         IN  DepthsFrom(f, here, next \ DOMAIN here, k + 1)

Depths(f, r) == DepthsFrom(f, <<>>, {r}, 0)

Last(seq) == seq[Len(seq)]

(* ------------------------------- claims -------------------------------- *)

\* C1: ambiguity_check returns Err(MoreThanOne) exactly when the root or a
\* node transitively reachable from it through shape-defined children is
\* locally ambiguous, and Ok(()) otherwise.
C1_ErrIffGloballyAmbiguous ==
    (cmd = "none" /\ result # "running") =>
        /\ result = (IF GloballyAmbiguous(sppf, root) THEN "Err" ELSE "Ok")
        /\ ambiguity_check([sppf |-> sppf, node |-> root]) = result

\* An Err found behind two unambiguous nodes, the root among them.
C1_Witness ==
    /\ cmd = "none"
    /\ result = "Err"
    /\ Len(dequeued) = 3
    /\ ~LocallyAmbiguous(sppf, root)

\* C6: in one call every node is enqueued at most once and dequeued at most
\* once, the nodes visited are at most the distinct nodes reachable from the
\* root, every node in the queue is in seen, and the queue has no duplicates.
C6_EachNodeAtMostOnce ==
    cmd = "none" =>
        /\ NoDuplicates(enqueued)
        /\ NoDuplicates(dequeued)
        /\ NoDuplicates(queue)
        /\ Range(queue) \subseteq seen
        /\ seen = Range(enqueued)
        /\ dequeued # <<>> =>
              /\ Range(dequeued) \subseteq Reachable(sppf, root)
              /\ Len(dequeued) <= Cardinality(Reachable(sppf, root))

\* A finished traversal in which a node was a child of two visited nodes.
C6_Witness ==
    /\ cmd = "none"
    /\ result = "Ok"
    /\ \E a, b \in Range(dequeued) : \E n \in Range(dequeued) :
          /\ a # b
          /\ n \notin {a, b}
          /\ n \in Children(sppf, a) \cap Children(sppf, b)

\* C8: nodes are dequeued in breadth-first order; the call returns Err at the
\* first locally ambiguous node it dequeues, no node is dequeued after it,
\* and only children of unambiguous dequeued nodes were ever enqueued.
C8_StopsAtFirstAmbiguous ==
    cmd = "none" =>
        /\ enqueued = dequeued \o queue
        /\ dequeued = <<>> => result = "running"
        /\ dequeued # <<>> =>
              /\ \A i \in 1..(Len(dequeued) - 1) : ~LocallyAmbiguous(sppf, dequeued[i])
              /\ result = "Err" <=> LocallyAmbiguous(sppf, Last(dequeued))
              /\ LET depth == Depths(sppf, root)
                 IN  /\ Range(dequeued) \subseteq DOMAIN depth
                     /\ \A i \in 1..(Len(dequeued) - 1) :
                            depth[dequeued[i]] <= depth[dequeued[i + 1]]
              /\ Range(enqueued) =
                    {root} \cup UNION {Children(sppf, n) :
                              n \in {m \in Range(dequeued) : ~LocallyAmbiguous(sppf, m)}}

\* An Err returned while another node was still waiting in the queue.
C8_Witness ==
    /\ cmd = "none"
    /\ result = "Err"
    /\ queue # <<>>
    /\ Len(dequeued) >= 2

\* What is left to do: two for every node not seen yet (it may still be
\* pushed, then popped), one for every node waiting in the queue.
Measure == 2 * Cardinality(Nodes \ seen) + Len(queue)

\* C10: ambiguity_check terminates on every forest, cyclic ones included:
\* every iteration of the loop lowers Measure, which is never negative, and
\* on the empty queue the next step returns.
C10_Terminates ==
    [][/\ (result = "running" /\ queue # <<>>) =>
             (Measure' < Measure /\ Measure' >= 0)
       /\ (result = "running" /\ queue = <<>>) => result' = "Ok"
       /\ result # "running" => UNCHANGED cvars]_vars

\* A finished traversal of a forest in which a visited node is on a cycle.
C10_Witness ==
    /\ cmd = "none"
    /\ result = "Ok"
    /\ Len(dequeued) >= 2
    /\ \E n \in Range(dequeued) : OnCycle(sppf, n)

(* --------------------------- claims: main ------------------------------ *)

\* The outcome category of a file, from what the external crates answer for
\* it and from the forest itself.
Outcome(file) ==
    IF ~file.tokenizes \/ file.parsed = "NoParse" THEN "Failed"
    ELSE IF file.parsed = "TooShort" THEN "Partial"
    ELSE IF GloballyAmbiguous(file.sppf, file.node) THEN "Ambiguous"
    ELSE "Unambiguous"

StatusOf(outcome) ==
    CASE outcome = "Unambiguous" -> "~"
      [] outcome = "Ambiguous" -> "!"
      [] outcome = "Partial" -> "."
      [] outcome = "Failed" -> "X"

CounterOf(outcome) ==
    CASE outcome = "Unambiguous" -> "unambiguous"
      [] outcome = "Ambiguous" -> "ambiguous"
      [] outcome = "Partial" -> "too_short"
      [] outcome = "Failed" -> "no_parse"

\* The lines of status characters: stdout, less the line the statistics
\* start on once the final println has ended the last status line.
StatusLines ==
    IF pc = "done" THEN SubSeq(stdout, 1, Len(stdout) - 1) ELSE stdout

\* C2: in the dir command the four category counters always sum to
\* total_count, total_count is the number of files processed so far, and the
\* statistics printed at the end are these numbers for all the files.
C2_CountsSumToTotal ==
    cmd = "dir" =>
        /\ counts.unambiguous + counts.ambiguous + counts.too_short + counts.no_parse
              = counts.total
        /\ counts.total = idx
        /\ pc = "done" =>
              /\ counts.total = Len(files)
              /\ stats = << <<counts.total, counts.unambiguous, counts.ambiguous,
                              counts.too_short, counts.no_parse>> >>

\* The statistics of a directory with files of all four categories.
C2_Witness ==
    /\ cmd = "dir"
    /\ pc = "done"
    /\ counts.unambiguous > 0
    /\ counts.ambiguous > 0
    /\ counts.too_short > 0
    /\ counts.no_parse > 0

\* C3: in compact mode every line of status characters but the last holds
\* exactly 80 characters, and 160 files give exactly two lines of 80.
C3_WrapsAtEighty ==
    (cmd = "dir" /\ ~verbose) =>
        /\ \A i \in 1..(Len(StatusLines) - 1) : Len(StatusLines[i]) = Columns
        /\ (pc = "done" /\ Len(files) = 2 * Columns) =>
              /\ Len(StatusLines) = 2
              /\ Len(StatusLines[1]) = Columns
              /\ Len(StatusLines[2]) = Columns

\* C4: each file processed by the dir command increments exactly the counter
\* of its outcome (and the total) by 1 and leaves the other three unchanged,
\* its status character is the one of its outcome, and ambiguity_check runs
\* exactly for a full parse.
C4_OneCounterPerFile ==
    [][(cmd = "dir" /\ idx' = idx + 1) =>
          LET file == files[idx']
              outcome == Outcome(file)
              entry == log'[Len(log')]
          IN  /\ counts' = [counts EXCEPT ![CounterOf(outcome)] = @ + 1,
                                          !.total = @ + 1]
              /\ Len(log') = Len(log) + 1
              /\ entry.status = StatusOf(outcome)
              /\ entry.count = CounterOf(outcome)
              /\ entry.checked <=> (file.tokenizes /\ file.parsed = "Ok")
              /\ ~verbose => stdout'[Len(stdout')][Len(stdout'[Len(stdout')])]
                                 = StatusOf(outcome)
      ]_vars

\* Files of all four statuses have been processed.
C4_Witness ==
    /\ cmd = "dir"
    /\ {log[i].status : i \in DOMAIN log} = {"~", "!", ".", "X"}
    /\ \E i \in DOMAIN log : files[i].parsed = "TooShort" /\ ~log[i].checked

\* C5: a file whose text does not tokenize is given to the callback as
\* NoParse without the parser being called; in the dir command no_parse_count
\* and total_count rise by 1, the status is 'X', no other counter changes.
C5_TokenizeFailureIsNoParse ==
    [][(cmd = "dir" /\ idx' = idx + 1 /\ ~files[idx'].tokenizes) =>
          LET entry == log'[Len(log')]
          IN  /\ counts' = [counts EXCEPT !.no_parse = @ + 1, !.total = @ + 1]
              /\ entry.status = "X"
              /\ ~entry.parser_called
              /\ ~entry.checked
              /\ verbose => stderr'[Len(stderr')].result = "NoParse"
              /\ ~verbose => stdout'[Len(stdout')][Len(stdout'[Len(stdout')])] = "X"
      ]_vars

\* The file just processed did not tokenize.
C5_Witness ==
    /\ cmd = "dir"
    /\ idx > 0
    /\ ~files[idx].tokenizes
    /\ log[idx].status = "X"

C9_BatchNeverStops ==
    cmd = "dir" =>
        /\ Len(log) = idx
        /\ \A i \in 1..idx : log[i].file = i
        /\ idx > 0 => log[idx].status = StatusOf(Outcome(files[idx]))
        /\ pc = "run" => stats = <<>>
        /\ pc # "run" =>
              /\ pc = "done"
              /\ idx = Len(files)
              /\ Len(stats) = 1

\* The statistics of a directory whose first three files were ambiguous,
\* partial and failed.
C9_Witness ==
    /\ cmd = "dir"
    /\ pc = "done"
    /\ Len(stats) = 1
    /\ Len(log) >= 3
    /\ log[1].status = "!"
    /\ log[2].status = "."
    /\ log[3].status = "X"

====
